---- MODULE Spec2Model ----
(***************************************************************************)
(* Model of the vscode-ollama-chat extension: the OllamaService class      *)
(* (transcript, current model, command dispatcher, plain chat) and the     *)
(* webview message handler of extension.ts that drives it.                 *)
(*                                                                         *)
(* Texts.  A text is a sequence of atoms.  Text typed by the user is a     *)
(* sequence of one-character strings, so that trim, toLowerCase, split,    *)
(* startsWith and slice are computed character by character.  A literal    *)
(* of the source that no code ever looks into (a message such as           *)
(* "Chat history cleared") is a single atom.  The empty text is << >>.     *)
(*                                                                         *)
(* Scheduling.  The extension host runs one JavaScript thread: a handler   *)
(* runs until it suspends on I/O (fetch, openTextDocument, findFiles) and  *)
(* only then may another webview event or I/O completion run.  `running`   *)
(* is the task that holds the thread (0: none).  The timestamp field of a  *)
(* ChatMessage is new Date().toISOString(): no code reads it, it is left   *)
(* out of the Turn records.                                                *)
(*                                                                         *)
(* Code inspector.  The private methods that compute on the text of one    *)
(* file (findCodeDuplicates, extractImports, findUnusedImports) are        *)
(* operators on the sequence of the lines of the text; SpecInspect applies *)
(* them to the texts of a bounded set (fileText) and keeps the result in   *)
(* `out`.  Spec, the session, leaves both variables alone.                 *)
(*                                                                         *)
(* Panels.  The startChat command creates a webview panel together with    *)
(* an OllamaService, so a panel and its service share one index; the       *)
(* closure variables currentPanel, ollamaService and savedState of         *)
(* activate() are shared by every handler the command registers.           *)
(*                                                                         *)
(* Specifications.  Spec is the session with the events of the user        *)
(* arriving at any time; SpecSerial is the same session with the user      *)
(* acting only when no handler is in progress; SpecInspect is the code     *)
(* inspector.                                                              *)
(***************************************************************************)
EXTENDS Integers, Sequences, FiniteSets, TLC

(***************************************************************************)
(* Bounds of the model.                                                    *)
(***************************************************************************)
\* number of handler invocations that may be in progress at once
MaxTasks == 2
\* longest transcript explored
MaxTurns == 3
\* longest text handed to findCodeDuplicates
MaxLines == 11
\* longest text handed to extractImports, findUnusedImports and the
\* complexity counters
MaxImportLines == 3
\* number of chat panels (and services) startChat may create
MaxServices == 2

(***************************************************************************)
(* String operations of JavaScript, on sequences of characters.            *)
(***************************************************************************)
UpperCase == <<"A", "B", "E", "F", "H", "L", "P", "Q", "X">>
LowerCase == <<"a", "b", "e", "f", "h", "l", "p", "q", "x">>

\* String.prototype.toLowerCase on one character
toLowerCaseChar(c) ==
    IF \E i \in 1..Len(UpperCase) : UpperCase[i] = c
    THEN LowerCase[CHOOSE i \in 1..Len(UpperCase) : UpperCase[i] = c]
    ELSE c

toLowerCase(s) == [i \in 1..Len(s) |-> toLowerCaseChar(s[i])]

IsSpace(c) == c = " "

RECURSIVE trimStart(_)
trimStart(s) ==
    IF s # << >> /\ IsSpace(Head(s)) THEN trimStart(Tail(s)) ELSE s

RECURSIVE trimEnd(_)
trimEnd(s) ==
    IF s # << >> /\ IsSpace(s[Len(s)]) THEN trimEnd(SubSeq(s, 1, Len(s) - 1)) ELSE s

\* String.prototype.trim
trim(s) == trimEnd(trimStart(s))

\* String.prototype.startsWith
startsWith(s, p) == Len(s) >= Len(p) /\ SubSeq(s, 1, Len(p)) = p

\* String.prototype.slice(n)
slice(s, n) == SubSeq(s, n + 1, Len(s))

\* index of the first occurrence of character c in s, 0 if there is none
RECURSIVE indexOf(_, _)
indexOf(s, c) ==
    IF s = << >> THEN 0
    ELSE IF Head(s) = c THEN 1
    ELSE LET r == indexOf(Tail(s), c) IN IF r = 0 THEN 0 ELSE r + 1

\* String.prototype.split(sep): the sequence of the pieces between separators
RECURSIVE split(_, _)
split(s, sep) ==
    LET i == indexOf(s, sep) IN
    IF i = 0 THEN << s >>
    ELSE << SubSeq(s, 1, i - 1) >> \o split(SubSeq(s, i + 1, Len(s)), sep)

\* Array.prototype.join(sep)
RECURSIVE join(_, _)
join(parts, sep) ==
    IF parts = << >> THEN << >>
    ELSE IF Len(parts) = 1 THEN parts[1]
    ELSE parts[1] \o << sep >> \o join(Tail(parts), sep)

isDigit(c) == c \in {"0", "1", "2", "3", "4", "5", "6", "7", "8", "9"}

\* the characters of a keyword or of an input, written out
at == "@"
kwHelp == << at, "h", "e", "l", "p" >>
kwList == << at, "l", "i", "s", "t" >>
kwClear == << at, "c", "l", "e", "a", "r" >>
kwInfo == << at, "i", "n", "f", "o" >>
kwWorkspace == << at, "w", "o", "r", "k", "s", "p", "a", "c", "e" >>
kwModel == << at, "m", "o", "d", "e", "l" >>
kwRead == << at, "r", "e", "a", "d" >>
kwUnderstand == << at, "u", "n", "d", "e", "r", "s", "t", "a", "n", "d" >>
kwAnalyze == << at, "a", "n", "a", "l", "y", "z", "e" >>
kwSearch == << at, "s", "e", "a", "r", "c", "h" >>
kwEdit == << at, "e", "d", "i", "t" >>
kwExplain == << at, "e", "x", "p", "l", "a", "i", "n" >>
kwRefactor == << at, "r", "e", "f", "a", "c", "t", "o", "r" >>
kwDeps == << at, "d", "e", "p", "s" >>
sp == << " " >>
colon == << ":" >>

(***************************************************************************)
(* The environment: the Ollama server and the workspace.                   *)
(***************************************************************************)
\* GET /api/tags of the server: the registered models
ServerModels ==
    << [name |-> << "a" >>, size |-> << "1" >>],
       [name |-> << "B" >>, size |-> << "2" >>],
       [name |-> << "l", ":", "x" >>, size |-> << "3" >>] >>

ServerModelNames == { ServerModels[i].name : i \in 1..Len(ServerModels) }

\* message.content of a successful POST /api/chat (the model may answer nothing)
Replies == { << "hi" >>, << >> }

\* how a remote call ends: a 2xx response, a non-2xx status, a rejected fetch
HttpOutcomes == { "ok", "status", "network" }

\* the Error raised for an outcome that is not "ok" (lines of sendMessage,
\* listModels and handleCommand that throw on !response.ok; fetch rejects itself)
HttpError(outcome) ==
    IF outcome = "status"
    THEN [name |-> "Error", message |-> << "HTTP error! status: ", "500" >>]
    ELSE [name |-> "FetchError", message |-> << "request failed, reason: ECONNREFUSED" >>]

\* `${error}` / String(error)
ErrorToString(e) == << e.name, ": " >> \o e.message

\* new Error(message)
NewError(msg) == [name |-> "Error", message |-> msg]

NoWorkspaceText == << "No workspace folder is open." >>

\* the files of the workspace folder when one is open: path -> lines
WorkspaceFiles ==
    [p \in { << "f" >> } |-> << << "x", " ", "y" >>, << >>, << "z" >> >>]

(***************************************************************************)
(* handleCommand: parsing of the command text.                             *)
(***************************************************************************)
\* const cmd = command.trim().toLowerCase()
cmdOf(command) == toLowerCase(trim(command))

\* const [cmdPart, ...queryParts] = cmd.split(':')
cmdPartOf(command) == Head(split(cmdOf(command), ":"))
queryPartsOf(command) == Tail(split(cmdOf(command), ":"))

\* const query = queryParts.join(':').trim()
queryOf(command) == trim(join(queryPartsOf(command), ":"))

\* const baseCmd = cmdPart.trim()
baseCmdOf(command) == trim(cmdPartOf(command))

\* the branch of the switch (and of the if-chain of its default case) taken
branchOf(command) ==
    LET baseCmd == baseCmdOf(command) IN
    CASE baseCmd = kwHelp -> "help"
      [] baseCmd = kwList -> "list"
      [] baseCmd = kwClear -> "clear"
      [] baseCmd = kwInfo -> "info"
      [] baseCmd = kwWorkspace -> "workspace"
      [] OTHER ->
           IF startsWith(baseCmd, kwModel \o sp) THEN "model"
           ELSE IF startsWith(baseCmd, kwRead \o sp) THEN "read"
           ELSE IF startsWith(baseCmd, kwUnderstand \o sp) THEN "understand"
           ELSE IF startsWith(baseCmd, kwAnalyze \o sp) THEN "analyze"
           ELSE IF startsWith(baseCmd, kwSearch \o sp) THEN "search"
           ELSE IF startsWith(baseCmd, kwEdit \o sp) THEN "edit"
           ELSE IF startsWith(baseCmd, kwExplain \o sp) THEN "explain"
           ELSE IF startsWith(baseCmd, kwRefactor \o sp) THEN "refactor"
           ELSE IF startsWith(baseCmd, kwDeps \o sp) THEN "deps"
           ELSE "unknown"

\* baseCmd.slice(n).trim(): the argument after the keyword and its blank
argOf(command, kw) == trim(slice(baseCmdOf(command), Len(kw) + 1))

(***************************************************************************)
(* What the user submits.  The webview posts messageInput.value.trim() and *)
(* only when it is not empty (extension.ts 369-370).                       *)
(***************************************************************************)
hello == << "h", "e", "l", "l", "o" >>

\* the messages the webview posts to the extension (extension.ts 381-405)
Send(text) == [command |-> "sendMessage", text |-> text, model |-> << >>]
Select(model) == [command |-> "changeModel", text |-> << >>, model |-> model]
ClearButton == [command |-> "clearHistory", text |-> << >>, model |-> << >>]

\* document.visibilityState 'hidden': the webview posts its state (extension.ts 544-553)
StateSaved(model) == [command |-> "saveState", text |-> << >>, model |-> model]
\* the user closes the panel: no message, the panel's onDidDispose event
ClosePanel == [command |-> "dispose", text |-> << >>, model |-> << >>]

\* What the user of one session does, in groups: a session is driven with the
\* messages of one group.  The groups bound which operations are explored
\* together; every command and every event is in some group.
ChatInputs == { Send(hello), Send(kwClear), Send(kwInfo), ClearButton }

SelectInputs == { Send(hello), Send(kwInfo), Select(<< "a" >>), Select(<< "B" >>) }

HelpInputs ==
    { Send(kwHelp), Send(kwList), Send(<< at >>),
      Send(<< at, "b", "o", "g", "u", "s" >>), Send(<< at, "H", "E", "L", "P" >>) }

ModelInputs ==
    { Send(hello),
      Send(kwModel \o sp \o << "a" >>),
      Send(kwModel \o sp \o << "A" >>),
      Send(kwModel \o sp \o << "z" >>) }

ModelNameInputs ==
    { Send(kwInfo),
      Send(kwModel \o sp \o << "B" >>),
      Send(kwModel \o sp \o << "l", ":", "x" >>),
      Send(kwModel \o sp \o << "z" >>) }

WorkspaceInputs ==
    { Send(hello), Send(kwWorkspace), Send(kwWorkspace \o colon \o sp \o << "q" >>),
      ClearButton }

ReadInputs ==
    { Send(kwRead \o sp \o << "f" >>),
      Send(kwRead \o sp \o << "f" >> \o colon \o sp \o << "Q" >>),
      Send(kwRead \o sp \o << "g" >> \o colon \o sp \o << "q" >>),
      Send(kwUnderstand \o sp \o << "f" >>),
      Select(<< "a" >>) }

LocalInputs ==
    { Send(kwAnalyze \o sp \o << "f" >>),
      Send(kwExplain \o sp \o << "f" >>),
      Send(kwRefactor \o sp \o << "g" >>),
      Send(kwDeps \o sp \o << "f" >>),
      Send(kwSearch \o sp \o << "x" >>) }

EditInputs ==
    { Send(kwEdit \o sp \o << "f" >>),
      Send(kwEdit \o sp \o << "f", " ", "1", " ", "X" >>),
      Send(kwEdit \o sp \o << "f", " ", "9", " ", "x" >>),
      Send(kwRead \o sp \o << "f" >> \o colon \o sp \o << "q" >>) }

UnknownInputs ==
    { Send(<< at, "B", "x" >>), Send(<< at, "b", "x" >> \o colon \o << "q" >>), Send(<< at >>) }

ColonInputs ==
    { Send(kwEdit \o sp \o << "f", " ", "1", " ", "a", ":", "b" >>),
      Send(kwEdit \o sp \o << "f", " ", "0", " ", "a" >>),
      Send(kwSearch \o sp \o << "x", ":", "y" >>) }

PanelInputs == { Send(kwList), ClosePanel }

StateInputs == { Send(kwInfo), StateSaved(<< "a" >>), ClosePanel, ClearButton }

Vocabularies ==
    { ChatInputs, SelectInputs, HelpInputs, ModelInputs, ModelNameInputs,
      WorkspaceInputs, ReadInputs, LocalInputs, EditInputs, UnknownInputs, ColonInputs,
      PanelInputs, StateInputs }

(***************************************************************************)
(* State.                                                                  *)
(***************************************************************************)
VARIABLES
    services,       \* the OllamaService objects created so far, by identity
    ollamaService,  \* extension.ts `ollamaService`: index in services, 0 = undefined
    tasks,          \* the invocations of the 'sendMessage' handler in progress
    running,        \* the task that holds the JavaScript thread, 0 = none
    net,            \* per task: the remote request it waits for
    currentPanel,   \* extension.ts `currentPanel`: index of the panel, 0 = undefined
    panels,         \* the panels created and not yet closed
    handlers,       \* the panels whose message and dispose handlers are registered
    starting,       \* the panel whose startChat awaits listModels, 0 = none
    savedState,     \* extension.ts `savedState`: its model, << >> = undefined
    posted,         \* the last message posted to a webview, and to which panel
    inputs,         \* the events the user of this session causes
    workspaceOpen,  \* vscode.workspace.workspaceFolders is not empty
    files,          \* the documents of the workspace folder: path -> lines
    fileText,       \* `content` handed to a method of the code inspector, as lines
    out             \* what that method returned

\* the workspace and the inspector, which only @edit changes (files)
world == << inputs, workspaceOpen, files, fileText, out >>
\* the panels of the extension host
shell == << currentPanel, panels, handlers, starting >>
\* what a step inside handleCommand or sendMessage leaves alone
fixed == << inputs, workspaceOpen, fileText, out, shell, savedState, posted >>
env == << world, shell, savedState, posted >>

vars ==
    << services, ollamaService, tasks, running, net, currentPanel, panels, handlers,
       starting, savedState, posted, inputs, workspaceOpen, files, fileText, out >>

Tasks == 1..MaxTasks

\* a ChatMessage (without its timestamp)
Turn(role, content) == [role |-> role, content |-> content]

\* how a call ended: with a returned text or with a raised Error
NoResult == [kind |-> "none", name |-> "none", value |-> << >>]
Return(text) == [kind |-> "return", name |-> "none", value |-> text]
Throw_AsText(e) == [kind |-> "return", name |-> "none", value |-> e.message]
Throw(e) == [kind |-> "throw", name |-> e.name, value |-> e.message]

\* no method of the code inspector has been called
NoReport == [fn |-> "none", value |-> << >>]

IdleTask ==
    [pc |-> "idle", kind |-> "none", svc |-> 0, command |-> << >>,
     sent |-> 0, caught |-> FALSE, result |-> NoResult]

NoRequest == [url |-> "none", model |-> << >>, messages |-> << >>]

\* extension.ts: savedState?.model || 'llama2-uncensored'
DefaultModel == << "llama2-uncensored" >>

\* currentPanel?.webview.postMessage({command: ...})
postMessage(command) ==
    IF currentPanel = 0 THEN posted ELSE [panel |-> currentPanel, command |-> command]

NewService_WithContext(model) ==
    [model |-> model,
     messageHistory |-> << >>,
     workspaceContext |-> << "tree" >>,
     currentFileContext |-> [set |-> FALSE, path |-> << >>, content |-> << >>]]

\* new OllamaService(apiUrl, model)
NewService(model) ==
    [model |-> model,
     messageHistory |-> << >>,
     workspaceContext |-> << >>,
     currentFileContext |-> [set |-> FALSE, path |-> << >>, content |-> << >>]]

(***************************************************************************)
(* Methods of OllamaService that act on the session state.                 *)
(***************************************************************************)
push_Front(svc, turn) == [svc EXCEPT !.messageHistory = << turn >> \o @]

\* this.messageHistory.push(turn)
push(svc, turn) == [svc EXCEPT !.messageHistory = Append(@, turn)]

\* addToHistory(message)
addToHistory(svc, message) == push(svc, message)

clearHistory_Kept(svc) == svc

\* clearHistory()
clearHistory(svc) == [svc EXCEPT !.messageHistory = << >>]

\* setModel(model)
setModel(svc, model) == [svc EXCEPT !.model = model]

commandTurn_Lowered(command) == Turn("user", cmdOf(command))

\* the user Turn handleCommand records: content is `command`, not `cmd`
commandTurn(command) == Turn("user", command)

\* this.messageHistory.map(msg => ({role: msg.role, content: msg.content}))
messagesOf(history) ==
    [i \in 1..Len(history) |-> [role |-> history[i].role, content |-> history[i].content]]

isolatedMessages_WithHistory(svc, prompt) ==
    messagesOf(svc.messageHistory) \o << [role |-> "user", content |-> prompt] >>

\* messages: [{role: 'user', content: prompt}] of @workspace, @read, @understand
isolatedMessages(svc, prompt) == << [role |-> "user", content |-> prompt] >>

\* the body of a POST /api/chat
ChatRequest(model, messages) ==
    [url |-> "/api/chat", model |-> model, messages |-> messages]

TagsRequest == [url |-> "/api/tags", model |-> << >>, messages |-> << >>]

\* the catch of handleCommand: an Error raised in a branch becomes a text
ErrorExecutingCommand == "Error executing command: "
catchHandleCommand_Rethrow(r) == r
catchHandleCommand(r) ==
    IF r.kind = "throw" THEN Return(<< ErrorExecutingCommand >> \o r.value) ELSE r

\* JavaScript truthiness of `response` in `if (response)`
truthy(text) == text # << >>

\* activate(): no panel, no service, no saved state
Init ==
    /\ services = << >>
    /\ ollamaService = 0
    /\ tasks = [t \in Tasks |-> IdleTask]
    /\ running = 0
    /\ net = [t \in Tasks |-> NoRequest]
    /\ currentPanel = 0
    /\ panels = { }
    /\ handlers = { }
    /\ starting = 0
    /\ savedState = << >>
    /\ posted = [panel |-> 0, command |-> "none"]
    /\ inputs \in Vocabularies
    /\ workspaceOpen \in BOOLEAN
    /\ files = WorkspaceFiles
    /\ fileText = << >>
    /\ out = NoReport

\* turns that the tasks in progress will still append, at most one each
Pending == Cardinality({ t \in Tasks : tasks[t].pc # "idle" })

\* room in the explored transcript for one more exchange
Room(s) == Len(services[s].messageHistory) + Pending + 2 <= MaxTurns

(***************************************************************************)
(* Texts returned by the branches of handleCommand.                        *)
(***************************************************************************)
HelpText == << "Available commands: ..." >>
\* getCommandSuggestions(): the names of availableCommands, one per line
CommandSuggestions ==
    << "Available Commands:\n\n", "@workspace\n@list\n...\n@help\n",
       "\nType @help for detailed information about each command." >>
ClearedText == << "Chat history cleared" >>
InfoText(model) == << "Current model: " >> \o model
WorkspaceQueryMissingText == << "Please provide a query after @workspace:" >>
ReadQueryMissingText == << "Please provide a query after the file path:" >>
ModelChangedText(modelName) == << "Model changed to: " >> \o modelName
ModelNotFoundText(modelName) == << "Error: Model \"" >> \o modelName \o << "\" not found" >>
EditFormatText == << "Error: Invalid edit command format. Use @edit <file> <line> <content>" >>
UnknownCommandText(baseCmd) ==
    << "Unknown command: " >> \o baseCmd \o << "\nType @help to see available commands" >>

\* `Available models:\n${models.map(m => `- ${m.name} (${m.size})`).join('\n')}`
RECURSIVE ModelLines(_)
ModelLines(models) ==
    IF models = << >> THEN << >>
    ELSE (IF Len(models) < Len(ServerModels) THEN << "\n" >> ELSE << >>)
         \o << "- " >> \o Head(models).name \o << " (" >> \o Head(models).size \o << ")" >>
         \o ModelLines(Tail(models))
ListText(models) == << "Available models:\n" >> \o ModelLines(models)

\* `Workspace Context:\n${workspaceFiles}\n\nUser Query: ${query}`
workspacePrompt(workspaceFiles, query) ==
    << "Workspace Context:\n" >> \o workspaceFiles \o << "\n\nUser Query: " >> \o query

\* `File Context (${filePath}):\n${fileContent}\n\nUser Query: ${query}`
filePrompt(filePath, fileContent, query) ==
    << "File Context (" >> \o filePath \o << "):\n" >> \o fileContent
        \o << "\n\nUser Query: " >> \o query

\* the five-point analysis prompt of @understand
understandPrompt(filePath, fileContent) ==
    << "Please analyze and explain this code file in detail:\nFile path: " >> \o filePath
        \o << "\nContent:\n" >> \o fileContent \o << "\n\nPlease provide: 1. ... 5. ..." >>

\* document.getText(): the lines joined by newlines
getText(lines) == join(lines, "\n")

\* scanWorkspace with a folder open, for files at the top level of the folder:
\* "Workspace Structure:\n\n" and one line per file of formatFileTree
\* ("[file] " stands for the emoji the source prints before a file name)
RECURSIVE formatFileTree(_)
formatFileTree(paths) ==
    IF paths = { } THEN << >>
    ELSE LET p == CHOOSE q \in paths : TRUE IN
         << "[file] " >> \o p \o << "\n" >> \o formatFileTree(paths \ { p })
scanWorkspaceText(fs) == << "Workspace Structure:\n\n" >> \o formatFileTree(DOMAIN fs)

\* readFile(filePath) once a folder is open: the text, or the Error it raises
\* (its catch wraps whatever openTextDocument raised)
FailedToRead(filePath, e) ==
    NewError(<< "Failed to read file " >> \o filePath \o << ": " >> \o ErrorToString(e))
CannotOpen(filePath) == NewError(<< "cannot open " >> \o filePath)
readFile(fs, open, filePath) ==
    IF ~open THEN Throw(FailedToRead(filePath, NewError(NoWorkspaceText)))
    ELSE IF filePath \in DOMAIN fs THEN Return(getText(fs[filePath]))
    ELSE Throw(FailedToRead(filePath, CannotOpen(filePath)))

\* the catch of analyzeCode, explainCode, suggestRefactoring, analyzeDependencies,
\* searchCode and editFile: throw new Error(`Failed to ...: ${error}`)
Rewrap(prefix, r) ==
    IF r.kind = "throw"
    THEN Throw(NewError(prefix \o ErrorToString([name |-> r.name, message |-> r.value])))
    ELSE r

(***************************************************************************)
(* @search and @edit: searchCode, the regular expression of @edit, editFile*)
(***************************************************************************)
\* String.prototype.includes
includes(s, q) == \E i \in 0..(Len(s) - Len(q)) : SubSeq(s, i + 1, i + Len(q)) = q

\* the hits of searchCode in one document, line by line
RECURSIVE searchLines(_, _, _, _)
searchLines(path, lines, i, query) ==
    IF i > Len(lines) THEN << >>
    ELSE (IF includes(toLowerCase(lines[i]), toLowerCase(query))
          THEN << << "[file] " >> \o path \o << ":", ToString(i), "\n" >>
                     \o trim(lines[i]) \o << "\n\n" >> >>
          ELSE << >>)
         \o searchLines(path, lines, i + 1, query)

RECURSIVE searchFiles(_, _, _)
searchFiles(fs, paths, query) ==
    IF paths = { } THEN << >>
    ELSE LET p == CHOOSE q \in paths : TRUE IN
         searchLines(p, fs[p], 1, query) \o searchFiles(fs, paths \ { p }, query)

RECURSIVE concat(_)
concat(texts) == IF texts = << >> THEN << >> ELSE Head(texts) \o concat(Tail(texts))

\* searchCode(query) once the files are listed
searchCode(fs, query) ==
    LET hits == searchFiles(fs, DOMAIN fs, query) IN
    IF Len(hits) = 0 THEN << "No matches found for your search query." >>
    ELSE << "Search Results:\n\n" >> \o concat(hits)
            \o << "Found ", ToString(Len(hits)), " matches." >>

\* length of the longest prefix of s made of blanks / non-blanks / digits
RECURSIVE spaces(_)
spaces(s) == IF s # << >> /\ IsSpace(Head(s)) THEN 1 + spaces(Tail(s)) ELSE 0
RECURSIVE nonSpaces(_)
nonSpaces(s) == IF s # << >> /\ ~IsSpace(Head(s)) THEN 1 + nonSpaces(Tail(s)) ELSE 0
RECURSIVE digits(_)
digits(s) == IF s # << >> /\ isDigit(Head(s)) THEN 1 + digits(Tail(s)) ELSE 0

digitValue(c) == CHOOSE d \in 0..9 : ToString(d) = c

\* parseInt on a run of digits
RECURSIVE parseInt(_)
parseInt(s) ==
    IF s = << >> THEN 0 ELSE parseInt(SubSeq(s, 1, Len(s) - 1)) * 10 + digitValue(s[Len(s)])

\* baseCmd.match(/@edit\s+(\S+)\s+(\d+)\s+(.+)/i) for a baseCmd that starts with
\* "@edit " and holds no second "@edit": the match can only begin at index 0
editMatch(baseCmd) ==
    LET r0 == slice(baseCmd, Len(kwEdit))
        r1 == slice(r0, spaces(r0))
        n1 == nonSpaces(r1)
        r2 == slice(r1, n1)
        r3 == slice(r2, spaces(r2))
        n3 == digits(r3)
        r4 == slice(r3, n3)
        r5 == slice(r4, spaces(r4))
    IN  [ok |-> spaces(r0) > 0 /\ n1 > 0 /\ spaces(r2) > 0 /\ n3 > 0
                  /\ spaces(r4) > 0 /\ Len(r5) > 0,
         filePath |-> SubSeq(r1, 1, n1),
         line |-> SubSeq(r3, 1, n3),
         content |-> r5]

\* ("[ok] " stands for the check mark the source prints first)
EditedText(line, filePath) ==
    << "[ok] Successfully edited line " >> \o line \o << " in " >> \o filePath

FailedToEdit(e) == NewError(<< "Failed to edit file: " >> \o ErrorToString(e))

\* editFile up to applyEdit, once a folder is open: the Error it raises, or nothing
editFileCheck(fs, filePath, line) ==
    IF filePath \notin DOMAIN fs THEN Throw(FailedToEdit(CannotOpen(filePath)))
    ELSE IF line - 1 < 0 \/ line - 1 >= Len(fs[filePath])
    THEN Throw(FailedToEdit(NewError(<< "Illegal value for line" >>)))
    ELSE NoResult

\* edit.replace(document.uri, lineRange, content), applied
replaceLine(fs, filePath, line, content) ==
    [fs EXCEPT ![filePath] = [@ EXCEPT ![line] = content]]

\* the reports of the commands that only read a file.  `body` stands for the
\* report lines that the inspection heuristics compute from the document text.
LocalPrefix(branch) ==
    CASE branch = "analyze" -> << "Failed to analyze code in " >>
      [] branch = "explain" -> << "Failed to explain code: " >>
      [] branch = "refactor" -> << "Failed to suggest refactoring: " >>
      [] branch = "deps" -> << "Failed to analyze dependencies: " >>

LocalKeyword(branch) ==
    CASE branch = "analyze" -> kwAnalyze
      [] branch = "explain" -> kwExplain
      [] branch = "refactor" -> kwRefactor
      [] branch = "deps" -> kwDeps

nonEmptyLines(lines) == Cardinality({ i \in 1..Len(lines) : Len(trim(lines[i])) > 0 })

LocalReport(branch, filePath, lines) ==
    CASE branch = "analyze" ->
           << "Code Analysis for " >> \o filePath
              \o << ":\n\nFile Statistics:\n- Total lines: ", ToString(Len(lines)),
                    "\n- Non-empty lines: ", ToString(nonEmptyLines(lines)),
                    "\n\nNo issues found in the code.\n" >>
      [] branch = "explain" ->
           << "Code Explanation for " >> \o filePath \o << ":\n\n", "body" >>
      [] branch = "refactor" ->
           << "Refactoring Suggestions for " >> \o filePath \o << ":\n\n", "body" >>
      [] branch = "deps" ->
           << "Dependency Analysis for " >> \o filePath \o << ":\n\n", "body" >>

\* the catch of analyzeCode names the file, the other three do not
LocalRewrap(branch, filePath, r) ==
    Rewrap(IF branch = "analyze" THEN LocalPrefix(branch) \o filePath \o << ": " >>
           ELSE LocalPrefix(branch), r)

(***************************************************************************)
(* The 'sendMessage' case of the webview message handler (extension.ts     *)
(* 49-92) and the methods it calls, cut at the points where they suspend.  *)
(***************************************************************************)
\* a webview is open whose messages the handler of extension.ts 46-115 receives
Listening == handlers \cap panels # { }

\* the task record a new invocation takes: the lowest free one
FreeTask(t) ==
    /\ tasks[t].pc = "idle"
    /\ \A u \in Tasks : u < t => tasks[u].pc # "idle"

\* the service a task's method was called on (`this`)
This(t) == services[tasks[t].svc]

Finish_Retry(t, r) ==
    IF r.kind = "throw" /\ net[t].url # "none" /\ tasks[t].sent < 2
    THEN /\ tasks' = [tasks EXCEPT ![t].sent = @ + 1]
         /\ net' = net
         /\ running' = 0
    ELSE /\ tasks' = [tasks EXCEPT ![t].pc = "return",
                                   ![t].caught = (r.kind = "throw"),
                                   ![t].result = catchHandleCommand(r)]
         /\ net' = [net EXCEPT ![t] = NoRequest]
         /\ running' = t

\* a branch of handleCommand ended with r: its catch, then back to the caller
Finish(t, r) ==
    /\ tasks' = [tasks EXCEPT ![t].pc = "return",
                              ![t].caught = (r.kind = "throw"),
                              ![t].result = catchHandleCommand(r)]
    /\ net' = [net EXCEPT ![t] = NoRequest]
    /\ running' = t

\* the task awaits I/O; req is the remote request it has just sent, if any
Suspend(t, pc, req) ==
    /\ tasks' = [tasks EXCEPT ![t].pc = pc,
                              ![t].sent = @ + (IF req.url = "none" THEN 0 ELSE 1)]
    /\ net' = [net EXCEPT ![t] = req]
    /\ running' = 0

\* text.startsWith('@'): handleCommand is entered and records the user Turn
SendMessageCommand(t, message) ==
    LET text == trim(message.text) IN
    /\ message.command = "sendMessage"
    /\ Listening
    /\ running = 0
    /\ FreeTask(t)
    /\ ollamaService # 0
    /\ startsWith(text, << at >>)
    /\ Room(ollamaService)
    /\ services' = [services EXCEPT ![ollamaService] = push(@, commandTurn(text))]
    /\ tasks' = [tasks EXCEPT ![t] =
                    [IdleTask EXCEPT !.pc = "dispatch", !.kind = "command",
                                     !.svc = ollamaService, !.command = text]]
    /\ running' = t
    /\ UNCHANGED << ollamaService, net, env >>

\* sendMessage: the user content, with the ambient context when one is set
contextMessage(svc, message) ==
    IF svc.currentFileContext.set
    THEN << "Current File Context (" >> \o svc.currentFileContext.path \o << "):\n" >>
            \o svc.currentFileContext.content \o << "\n\nUser Question: " >> \o message
    ELSE IF svc.workspaceContext # << >>
    THEN << "Workspace Context:\n" >> \o svc.workspaceContext
            \o << "\n\nUser Question: " >> \o message
    ELSE message

\* any other text: sendMessage records the user Turn and posts the transcript
SendMessagePlain(t, message) ==
    LET text == trim(message.text)
        svc == push(services[ollamaService],
                    Turn("user", contextMessage(services[ollamaService], text)))
    IN
    /\ message.command = "sendMessage"
    /\ Listening
    /\ running = 0
    /\ FreeTask(t)
    /\ ollamaService # 0
    /\ ~startsWith(text, << at >>)
    /\ Room(ollamaService)
    /\ services' = [services EXCEPT ![ollamaService] = svc]
    /\ tasks' = [tasks EXCEPT ![t] =
                    [IdleTask EXCEPT !.pc = "awaitChat", !.kind = "plain", !.sent = 1,
                                     !.svc = ollamaService, !.command = text]]
    /\ net' = [net EXCEPT ![t] = ChatRequest(svc.model, messagesOf(svc.messageHistory))]
    /\ running' = 0
    /\ posted' = postMessage("thinking")
    /\ UNCHANGED << ollamaService, world, shell, savedState >>

AtDispatch(t, branch) ==
    /\ running = t
    /\ tasks[t].pc = "dispatch"
    /\ branchOf(tasks[t].command) = branch

CmdHelp_Remote(t) ==
    /\ AtDispatch(t, "help")
    /\ tasks' = [tasks EXCEPT ![t].pc = "awaitTags", ![t].sent = @ + 1]
    /\ net' = [net EXCEPT ![t] = TagsRequest]
    /\ running' = 0
    /\ UNCHANGED << services, ollamaService, env >>

CmdHelp(t) ==
    /\ AtDispatch(t, "help")
    /\ Finish(t, Return(HelpText))
    /\ UNCHANGED << services, ollamaService, env >>

CmdList(t) ==
    /\ AtDispatch(t, "list")
    /\ Suspend(t, "awaitTags", TagsRequest)
    /\ UNCHANGED << services, ollamaService, env >>

CmdClear(t) ==
    /\ AtDispatch(t, "clear")
    /\ services' = [services EXCEPT ![tasks[t].svc] = clearHistory(@)]
    /\ Finish(t, Return(ClearedText))
    /\ UNCHANGED << ollamaService, env >>

CmdInfo(t) ==
    /\ AtDispatch(t, "info")
    /\ Finish(t, Return(InfoText(This(t).model)))
    /\ UNCHANGED << services, ollamaService, env >>

\* @workspace: without a folder scanWorkspace returns its text at once and the
\* request follows in the same turn of the event loop; with one it awaits findFiles
CmdWorkspace(t) ==
    LET query == queryOf(tasks[t].command) IN
    /\ AtDispatch(t, "workspace")
    /\ IF query = << >>
       THEN Finish(t, Return(WorkspaceQueryMissingText))
       ELSE IF ~workspaceOpen
       THEN Suspend(t, "awaitChat",
                    ChatRequest(This(t).model,
                        isolatedMessages(This(t), workspacePrompt(NoWorkspaceText, query))))
       ELSE Suspend(t, "awaitScan", NoRequest)
    /\ UNCHANGED << services, ollamaService, env >>

CmdModel(t) ==
    /\ AtDispatch(t, "model")
    /\ Suspend(t, "awaitTags", TagsRequest)
    /\ UNCHANGED << services, ollamaService, env >>

CmdRead(t) ==
    LET filePath == argOf(tasks[t].command, kwRead) IN
    /\ AtDispatch(t, "read")
    /\ IF queryOf(tasks[t].command) = << >>
       THEN Finish(t, Return(ReadQueryMissingText))
       ELSE IF ~workspaceOpen
       THEN Finish(t, readFile(files, FALSE, filePath))
       ELSE Suspend(t, "awaitFile", NoRequest)
    /\ UNCHANGED << services, ollamaService, env >>

CmdUnderstand(t) ==
    LET filePath == argOf(tasks[t].command, kwUnderstand) IN
    /\ AtDispatch(t, "understand")
    /\ IF ~workspaceOpen
       THEN Finish(t, readFile(files, FALSE, filePath))
       ELSE Suspend(t, "awaitFile", NoRequest)
    /\ UNCHANGED << services, ollamaService, env >>

LocalBranches == { "analyze", "explain", "refactor", "deps" }

\* @analyze, @explain, @refactor, @deps: each starts with readFile
CmdLocal(t) ==
    LET branch == branchOf(tasks[t].command)
        filePath == argOf(tasks[t].command, LocalKeyword(branch))
    IN
    /\ running = t
    /\ tasks[t].pc = "dispatch"
    /\ branch \in LocalBranches
    /\ IF ~workspaceOpen
       THEN Finish(t, LocalRewrap(branch, filePath, readFile(files, FALSE, filePath)))
       ELSE Suspend(t, "awaitFile", NoRequest)
    /\ UNCHANGED << services, ollamaService, env >>

CmdSearch(t) ==
    /\ AtDispatch(t, "search")
    /\ IF ~workspaceOpen
       THEN Finish(t, Rewrap(<< "Failed to search code: " >>,
                             Throw(NewError(NoWorkspaceText))))
       ELSE Suspend(t, "awaitScan", NoRequest)
    /\ UNCHANGED << services, ollamaService, env >>

CmdEdit(t) ==
    LET m == editMatch(baseCmdOf(tasks[t].command)) IN
    /\ AtDispatch(t, "edit")
    /\ IF ~m.ok
       THEN Finish(t, Return(EditFormatText))
       ELSE IF ~workspaceOpen
       THEN Finish(t, Throw(FailedToEdit(NewError(NoWorkspaceText))))
       ELSE Suspend(t, "awaitFile", NoRequest)
    /\ UNCHANGED << services, ollamaService, env >>

CmdUnknown(t) ==
    /\ AtDispatch(t, "unknown")
    /\ Finish(t, Return(UnknownCommandText(baseCmdOf(tasks[t].command))))
    /\ UNCHANGED << services, ollamaService, env >>

(***************************************************************************)
(* Completions of the I/O a task awaits.  The continuation runs to the     *)
(* next await or to the return of handleCommand / sendMessage.             *)
(***************************************************************************)
modelKnown_Any(models, modelName) == TRUE

\* models.some(m => m.name === modelName)
modelKnown(models, modelName) == \E i \in 1..Len(models) : models[i].name = modelName

\* GET /api/tags answered: @list formats the list, @model looks the name up
TagsResponse(t, outcome) ==
    LET branch == branchOf(tasks[t].command)
        modelName == argOf(tasks[t].command, kwModel)
        found == modelKnown(ServerModels, modelName)
    IN
    /\ running = 0
    /\ tasks[t].pc = "awaitTags"
    /\ IF outcome # "ok"
       THEN Finish(t, Throw(HttpError(outcome))) /\ UNCHANGED services
       ELSE IF branch = "list"
       THEN Finish(t, Return(ListText(ServerModels))) /\ UNCHANGED services
       ELSE IF found
       THEN /\ services' = [services EXCEPT ![tasks[t].svc] =
                               clearHistory(setModel(@, modelName))]
            /\ Finish(t, Return(ModelChangedText(modelName)))
       ELSE Finish(t, Return(ModelNotFoundText(modelName))) /\ UNCHANGED services
    /\ UNCHANGED << ollamaService, env >>

\* findFiles answered: @workspace sends its one-message request, @search scans
ScanDone(t) ==
    LET branch == branchOf(tasks[t].command)
        query == queryOf(tasks[t].command)
    IN
    /\ running = 0
    /\ tasks[t].pc = "awaitScan"
    /\ IF branch = "workspace"
       THEN Suspend(t, "awaitChat",
                    ChatRequest(This(t).model,
                        isolatedMessages(This(t),
                            workspacePrompt(scanWorkspaceText(files), query))))
       ELSE Finish(t, Return(searchCode(files, argOf(tasks[t].command, kwSearch))))
    /\ UNCHANGED << services, ollamaService, env >>

\* openTextDocument answered (or failed): @read and @understand send their
\* one-message request, the local commands build their report, @edit goes on
\* to applyEdit
FileOpened(t) ==
    LET command == tasks[t].command
        branch == branchOf(command)
        m == editMatch(baseCmdOf(command))
    IN
    /\ running = 0
    /\ tasks[t].pc = "awaitFile"
    /\ CASE branch = "read" ->
              LET filePath == argOf(command, kwRead)
                  r == readFile(files, TRUE, filePath)
              IN IF r.kind = "throw" THEN Finish(t, r)
                 ELSE Suspend(t, "awaitChat",
                         ChatRequest(This(t).model,
                             isolatedMessages(This(t),
                                 filePrompt(filePath, r.value, queryOf(command)))))
         [] branch = "understand" ->
              LET filePath == argOf(command, kwUnderstand)
                  r == readFile(files, TRUE, filePath)
              IN IF r.kind = "throw" THEN Finish(t, r)
                 ELSE Suspend(t, "awaitChat",
                         ChatRequest(This(t).model,
                             isolatedMessages(This(t), understandPrompt(filePath, r.value))))
         [] branch \in LocalBranches ->
              LET filePath == argOf(command, LocalKeyword(branch))
                  r == readFile(files, TRUE, filePath)
              IN Finish(t, LocalRewrap(branch, filePath,
                     IF r.kind = "throw" THEN r
                     ELSE Return(LocalReport(branch, filePath, files[filePath]))))
         [] branch = "edit" ->
              LET r == editFileCheck(files, m.filePath, parseInt(m.line))
              IN IF r.kind = "throw" THEN Finish(t, r)
                 ELSE Suspend(t, "awaitEdit", NoRequest)
    /\ UNCHANGED << services, ollamaService, env >>

\* applyEdit answered: its boolean is not looked at
EditApplied(t, applied) ==
    LET m == editMatch(baseCmdOf(tasks[t].command))
        r == editFileCheck(files, m.filePath, parseInt(m.line))
    IN
    /\ running = 0
    /\ tasks[t].pc = "awaitEdit"
    /\ files' = IF applied /\ r.kind # "throw"
                THEN replaceLine(files, m.filePath, parseInt(m.line), m.content)
                ELSE files
    /\ Finish(t, Return(EditedText(m.line, m.filePath)))
    /\ UNCHANGED << services, ollamaService, fixed >>

ChatResponse_Rollback(t, outcome, reply) ==
    LET r == IF outcome = "ok" THEN Return(reply) ELSE Throw(HttpError(outcome)) IN
    /\ running = 0
    /\ tasks[t].pc = "awaitChat"
    /\ outcome # "ok" => reply = << >>
    /\ IF tasks[t].kind = "command"
       THEN Finish(t, r) /\ UNCHANGED services
       ELSE /\ services' = [services EXCEPT ![tasks[t].svc] =
                               IF outcome = "ok"
                               THEN push(@, Turn("assistant", reply))
                               ELSE [@ EXCEPT !.messageHistory =
                                        SubSeq(@, 1, Len(@) - 1)]]
            /\ tasks' = [tasks EXCEPT ![t].pc = "return", ![t].result = r]
            /\ net' = [net EXCEPT ![t] = NoRequest]
            /\ running' = t
    /\ UNCHANGED << ollamaService, env >>

\* POST /api/chat answered: a command returns data.message.content; sendMessage
\* also records it as the assistant Turn; a failure is raised
ChatResponse(t, outcome, reply) ==
    LET r == IF outcome = "ok" THEN Return(reply) ELSE Throw(HttpError(outcome)) IN
    /\ running = 0
    /\ tasks[t].pc = "awaitChat"
    /\ outcome # "ok" => reply = << >>
    /\ IF tasks[t].kind = "command"
       THEN Finish(t, r) /\ UNCHANGED services
       ELSE /\ services' = IF outcome = "ok"
                           THEN [services EXCEPT ![tasks[t].svc] =
                                    push(@, Turn("assistant", reply))]
                           ELSE services
            /\ tasks' = [tasks EXCEPT ![t].pc = "return", ![t].result = r]
            /\ net' = [net EXCEPT ![t] = NoRequest]
            /\ running' = t
    /\ UNCHANGED << ollamaService, env >>

\* back in the handler: a command's response, if truthy, is recorded as the
\* assistant Turn of the service `ollamaService` now names and posted to the
\* panel `currentPanel` now names; a raised Error is posted; the handler ends
ReturnToCaller(t) ==
    LET response == tasks[t].result.value IN
    /\ running = t
    /\ tasks[t].pc = "return"
    /\ services' =
          IF /\ tasks[t].kind = "command"
             /\ tasks[t].result.kind = "return"
             /\ truthy(response)
             /\ ollamaService # 0
          THEN [services EXCEPT ![ollamaService] =
                   addToHistory(@, Turn("assistant", response))]
          ELSE services
    /\ posted' =
          IF tasks[t].result.kind = "throw" THEN postMessage("error")
          ELSE IF tasks[t].kind = "plain" \/ truthy(response) THEN postMessage("response")
          ELSE posted
    /\ tasks' = [tasks EXCEPT ![t] = IdleTask]
    /\ running' = 0
    /\ UNCHANGED << ollamaService, net, world, shell, savedState >>

(***************************************************************************)
(* The other cases of the webview message handler.                         *)
(***************************************************************************)
\* case 'changeModel': setModel(message.model); clearHistory()
ChangeModel(message) ==
    /\ message.command = "changeModel"
    /\ Listening
    /\ running = 0
    /\ ollamaService # 0
    /\ services' = [services EXCEPT ![ollamaService] =
                       clearHistory(setModel(@, message.model))]
    /\ posted' = postMessage("modelChanged")
    /\ UNCHANGED << ollamaService, tasks, running, net, world, shell, savedState >>

\* case 'clearHistory': clearHistory(); savedState = undefined
ClearHistory(message) ==
    /\ message.command = "clearHistory"
    /\ Listening
    /\ running = 0
    /\ ollamaService # 0
    /\ services' = [services EXCEPT ![ollamaService] = clearHistory(@)]
    /\ savedState' = << >>
    /\ posted' = postMessage("historyCleared")
    /\ UNCHANGED << ollamaService, tasks, running, net, world, shell >>

\* case 'saveState': savedState = message.state
SaveState(message) ==
    /\ message.command = "saveState"
    /\ Listening
    /\ running = 0
    /\ savedState' = message.model
    /\ UNCHANGED << services, ollamaService, tasks, running, net, world, shell, posted >>

(***************************************************************************)
(* The startChat command and the panel's dispose event.                    *)
(***************************************************************************)
\* startChat up to `await ollamaService.listModels()`: an existing panel is
\* revealed; else a panel and a service are created
StartChat ==
    LET p == Len(services) + 1
        savedModel == IF savedState = << >> THEN DefaultModel ELSE savedState
    IN
    /\ running = 0
    /\ IF currentPanel # 0
       THEN UNCHANGED << services, ollamaService, shell >>
       ELSE /\ Len(services) < MaxServices
            /\ services' = Append(services, NewService(savedModel))
            /\ ollamaService' = p
            /\ currentPanel' = p
            /\ panels' = panels \cup { p }
            /\ starting' = p
            /\ UNCHANGED handlers
    /\ UNCHANGED << tasks, running, net, savedState, posted, world >>

\* listModels of startChat answered: on a failure startChat returns; else it
\* sets the webview's html (which raises when the panel is closed already)
\* and registers the handlers
StartChatModels(outcome) ==
    /\ running = 0
    /\ starting # 0
    /\ starting' = 0
    /\ handlers' = IF outcome = "ok" /\ starting \in panels
                   THEN handlers \cup { starting }
                   ELSE handlers
    /\ UNCHANGED << services, ollamaService, tasks, running, net, currentPanel, panels,
                    savedState, posted, world >>

\* the user closes panel p; its onDidDispose handler, if registered, resets
\* currentPanel and ollamaService
DisposePanel(p) ==
    /\ ClosePanel \in inputs
    /\ running = 0
    /\ p \in panels
    /\ panels' = panels \ { p }
    /\ IF p \in handlers
       THEN /\ currentPanel' = 0
            /\ ollamaService' = 0
            /\ handlers' = handlers \ { p }
       ELSE UNCHANGED << currentPanel, ollamaService, handlers >>
    /\ UNCHANGED << services, tasks, running, net, starting, savedState, posted, world >>

\* what the user does: a webview message, the startChat command, closing the panel
Events ==
    \/ \E t \in Tasks, message \in inputs : SendMessageCommand(t, message)
    \/ \E t \in Tasks, message \in inputs : SendMessagePlain(t, message)
    \/ \E message \in inputs : ChangeModel(message)
    \/ \E message \in inputs : ClearHistory(message)
    \/ \E message \in inputs : SaveState(message)
    \/ StartChat
    \/ \E p \in panels : DisposePanel(p)

\* what a handler in progress does next, and the I/O completions it awaits
Steps ==
    \/ \E t \in Tasks : CmdHelp(t)
    \/ \E t \in Tasks : CmdList(t)
    \/ \E t \in Tasks : CmdClear(t)
    \/ \E t \in Tasks : CmdInfo(t)
    \/ \E t \in Tasks : CmdWorkspace(t)
    \/ \E t \in Tasks : CmdModel(t)
    \/ \E t \in Tasks : CmdRead(t)
    \/ \E t \in Tasks : CmdUnderstand(t)
    \/ \E t \in Tasks : CmdLocal(t)
    \/ \E t \in Tasks : CmdSearch(t)
    \/ \E t \in Tasks : CmdEdit(t)
    \/ \E t \in Tasks : CmdUnknown(t)
    \/ \E t \in Tasks, outcome \in HttpOutcomes : TagsResponse(t, outcome)
    \/ \E t \in Tasks : ScanDone(t)
    \/ \E t \in Tasks : FileOpened(t)
    \/ \E t \in Tasks, applied \in BOOLEAN : EditApplied(t, applied)
    \/ \E t \in Tasks, outcome \in HttpOutcomes, reply \in Replies :
          ChatResponse(t, outcome, reply)
    \/ \E t \in Tasks : ReturnToCaller(t)
    \/ \E outcome \in HttpOutcomes : StartChatModels(outcome)

Next == Events \/ Steps

Spec == Init /\ [][Next]_vars

\* Serialized dispatch: the user acts only when no invocation of the handler
\* and no startChat is in progress, so that one input is fully processed
\* before the next.  The extension does not enforce it; SpecSerial is the
\* session as driven by a user who waits for each answer.
Quiet == starting = 0 /\ \A t \in Tasks : tasks[t].pc = "idle"

NextSerial == (Quiet /\ Events) \/ Steps

SpecSerial == Init /\ [][NextSerial]_vars

(***************************************************************************)
(* The code inspector: methods that compute on the text of one file.  The  *)
(* text is the sequence of its lines (content.split('\n')).                *)
(***************************************************************************)
\* const windowSize = 5
windowSize == 5

\* lines.slice(i, i + windowSize).join('\n'), i counted from 0
window(lines, i) == join(SubSeq(lines, i + 1, i + windowSize), "\n")

\* the inner loop of findCodeDuplicates: for (j; j < lines.length - windowSize; j++)
RECURSIVE duplicatesOf(_, _, _)
duplicatesOf(lines, i, j) ==
    IF ~(j < Len(lines) - windowSize) THEN << >>
    ELSE (IF window(lines, i) = window(lines, j)
          THEN << [startLine |-> i + 1, endLine |-> i + windowSize] >>
          ELSE << >>)
         \o duplicatesOf(lines, i, j + 1)

\* the outer loop: for (i = 0; i < lines.length - windowSize; i++)
RECURSIVE duplicatesFrom(_, _)
duplicatesFrom(lines, i) ==
    IF ~(i < Len(lines) - windowSize) THEN << >>
    ELSE duplicatesOf(lines, i, i + windowSize) \o duplicatesFrom(lines, i + 1)

findCodeDuplicates(lines) == duplicatesFrom(lines, 0)

kwImport == << "i", "m", "p", "o", "r", "t" >>
kwFrom == << "f", "r", "o", "m" >>

\* lines.forEach(line => { if (line.trim().startsWith('import')) imports.push(line.trim()) })
RECURSIVE extractImports(_)
extractImports(lines) ==
    IF lines = << >> THEN << >>
    ELSE (IF startsWith(trim(Head(lines)), kwImport) THEN << trim(Head(lines)) >> ELSE << >>)
         \o extractImports(Tail(lines))

isQuote(c) == c \in { "'", "\"" }
\* \w
isWord(c) == c \in { "a", "b", "e", "f", "h", "i", "k", "l", "m", "o", "p", "q", "r", "t", "x", "y", "z", "_" }

RECURSIVE nonQuotes(_)
nonQuotes(s) == IF s # << >> /\ ~isQuote(Head(s)) THEN 1 + nonQuotes(Tail(s)) ELSE 0
RECURSIVE words(_)
words(s) == IF s # << >> /\ isWord(Head(s)) THEN 1 + words(Tail(s)) ELSE 0

\* /from\s+['"]([^'"]+)['"]/ tried at 0-based index i of imp: its group 1, or << >>
fromGroupAt(imp, i) ==
    LET r0 == slice(imp, i)
        r1 == slice(r0, Len(kwFrom))
        r2 == slice(r1, spaces(r1))
        r3 == slice(r2, 1)
        n == nonQuotes(r3)
    IN  IF /\ startsWith(r0, kwFrom)
           /\ spaces(r1) > 0
           /\ r2 # << >> /\ isQuote(Head(r2))
           /\ n > 0
           /\ Len(r3) > n
        THEN SubSeq(r3, 1, n)
        ELSE << >>

\* /import\s+(\w+)/ tried at 0-based index i of imp: its group 1, or << >>
importGroupAt(imp, i) ==
    LET r0 == slice(imp, i)
        r1 == slice(r0, Len(kwImport))
        r2 == slice(r1, spaces(r1))
    IN  IF startsWith(r0, kwImport) /\ spaces(r1) > 0 /\ words(r2) > 0
        THEN SubSeq(r2, 1, words(r2))
        ELSE << >>

\* String.prototype.match: the leftmost index where the expression matches
fromGroup(imp) ==
    IF \E i \in 0..Len(imp) : fromGroupAt(imp, i) # << >>
    THEN LET i == CHOOSE i \in 0..Len(imp) :
                     /\ fromGroupAt(imp, i) # << >>
                     /\ \A k \in 0..(i - 1) : fromGroupAt(imp, k) = << >>
         IN fromGroupAt(imp, i)
    ELSE << >>

importGroup(imp) ==
    IF \E i \in 0..Len(imp) : importGroupAt(imp, i) # << >>
    THEN LET i == CHOOSE i \in 0..Len(imp) :
                     /\ importGroupAt(imp, i) # << >>
                     /\ \A k \in 0..(i - 1) : importGroupAt(imp, k) = << >>
         IN importGroupAt(imp, i)
    ELSE << >>

\* const importName = imp.match(/from.../)?.[1] || imp.match(/import.../)?.[1]
\* (<< >> stands for undefined)
importName(imp) == IF fromGroup(imp) # << >> THEN fromGroup(imp) ELSE importGroup(imp)

\* imports.forEach(imp => { if (importName && !content.includes(importName)) unused.push(imp) })
RECURSIVE findUnusedImports(_, _)
findUnusedImports(lines, imports) ==
    IF imports = << >> THEN << >>
    ELSE (IF /\ importName(Head(imports)) # << >>
             /\ ~includes(join(lines, "\n"), importName(Head(imports)))
          THEN << Head(imports) >> ELSE << >>)
         \o findUnusedImports(lines, Tail(imports))

\* the texts inspected: lines of one letter for the duplicate windows, and
\* small files of import statements and uses
LetterLines == { << "a" >>, << "b" >> }
ImportLines ==
    { kwImport \o << " ", "m" >>,
      << " " >> \o kwImport \o << " ", "k" >>,
      kwImport \o << " ", "x", " " >> \o kwFrom \o << " ", "'", "y", "'" >>,
      << "m", "(", ")" >>,
      << "y" >> }

\* the sets of tokens the complexity counters look for
complexityKeywords ==
    { << "i", "f" >>, << "e", "l", "s", "e" >>, << "f", "o", "r" >>,
      << "w", "h", "i", "l", "e" >>, << "s", "w", "i", "t", "c", "h" >>,
      << "c", "a", "t", "c", "h" >>, << "&", "&" >>, << "|", "|" >> }

RECURSIVE calculateCodeComplexity_PerKeyword(_)
calculateCodeComplexity_PerKeyword(lines) ==
    IF lines = << >> THEN 1
    ELSE Cardinality({ k \in complexityKeywords : includes(trim(Head(lines)), k) })
         + calculateCodeComplexity_PerKeyword(Tail(lines))

\* calculateCodeComplexity: 1, and one more for each line that holds a keyword
RECURSIVE calculateCodeComplexity(_)
calculateCodeComplexity(lines) ==
    IF lines = << >> THEN 1
    ELSE (IF \E k \in complexityKeywords : includes(trim(Head(lines)), k) THEN 1 ELSE 0)
         + calculateCodeComplexity(Tail(lines))

\* calculateFunctionComplexity: the same loop, written a second time
RECURSIVE calculateFunctionComplexity(_)
calculateFunctionComplexity(lines) ==
    IF lines = << >> THEN 1
    ELSE (IF \E k \in complexityKeywords : includes(trim(Head(lines)), k) THEN 1 ELSE 0)
         + calculateFunctionComplexity(Tail(lines))

\* lines of code: empty, 'if (x) {}', 'else {}', 'x', ' if a&&b'
ComplexityLines ==
    { << >>,
      << "i", "f", " ", "(", "x", ")", " ", "{", "}" >>,
      << "e", "l", "s", "e", " ", "{", "}" >>,
      << "x" >>,
      << " ", "i", "f", " ", "a", "&", "&", "b" >> }

\* content.split('\n') has at least one line
Texts(lineSet, maxLen) == UNION { [1..n -> lineSet] : n \in 1..maxLen }

InitInspect ==
    /\ services = << NewService(DefaultModel) >>
    /\ ollamaService = 1
    /\ tasks = [t \in Tasks |-> IdleTask]
    /\ running = 0
    /\ net = [t \in Tasks |-> NoRequest]
    /\ currentPanel = 1
    /\ panels = { 1 }
    /\ handlers = { 1 }
    /\ starting = 0
    /\ savedState = << >>
    /\ posted = [panel |-> 0, command |-> "none"]
    /\ inputs = { }
    /\ workspaceOpen = TRUE
    /\ files = WorkspaceFiles
    /\ fileText \in Texts(LetterLines, MaxLines) \cup Texts(ImportLines, MaxImportLines)
                      \cup Texts(ComplexityLines, MaxImportLines)
    /\ out = NoReport

Inspect(fn, value) ==
    /\ out.fn = "none"
    /\ out' = [fn |-> fn, value |-> value]
    /\ UNCHANGED << services, ollamaService, tasks, running, net, shell, savedState,
                    posted, inputs, workspaceOpen, files, fileText >>

\* suggestRefactoring: this.findCodeDuplicates(content)
FindCodeDuplicates == Inspect("findCodeDuplicates", findCodeDuplicates(fileText))

\* analyzeDependencies: this.extractImports(content)
ExtractImports == Inspect("extractImports", extractImports(fileText))

\* analyzeDependencies: this.findUnusedImports(content, imports)
FindUnusedImports ==
    Inspect("findUnusedImports", findUnusedImports(fileText, extractImports(fileText)))

\* explainCode: this.calculateCodeComplexity(content)
CalculateCodeComplexity == Inspect("calculateCodeComplexity", calculateCodeComplexity(fileText))

\* suggestRefactoring: this.calculateFunctionComplexity(f.content)
CalculateFunctionComplexity ==
    Inspect("calculateFunctionComplexity", calculateFunctionComplexity(fileText))

NextInspect ==
    \/ FindCodeDuplicates
    \/ ExtractImports
    \/ FindUnusedImports
    \/ CalculateCodeComplexity
    \/ CalculateFunctionComplexity

SpecInspect == InitInspect /\ [][NextInspect]_vars

(***************************************************************************)
(* Properties.                                                             *)
(***************************************************************************)
Services == 1..Len(services)
History(s) == services[s].messageHistory
Last(seq) == seq[Len(seq)]

\* the same roles and contents, turn by turn
SameTurns(a, b) ==
    /\ Len(a) = Len(b)
    /\ \A i \in 1..Len(a) : a[i].role = b[i].role /\ a[i].content = b[i].content

\* steps of one task: handleCommand is entered, a chat request leaves, the
\* handler of a command ends
EntersCommand(t) == tasks[t].kind # "command" /\ tasks'[t].kind = "command"
SendsChat(t) == net'[t] # net[t] /\ net'[t].url = "/api/chat"
ReturnsCommand(t) ==
    tasks[t].kind = "command" /\ tasks[t].pc = "return" /\ tasks'[t].pc = "idle"

\* C1: every call of handleCommand first appends one user Turn whose content is
\* the command text as handleCommand received it (extension.ts passes the
\* trimmed webview text); when that Turn is in, nothing else of the command
\* has happened: no request sent, no file touched, model and the rest of the
\* transcript as before.
C1_UserTurnFirst ==
    [][\A t \in Tasks : EntersCommand(t) =>
          LET s == tasks'[t].svc IN
          /\ \E m \in inputs : m.command = "sendMessage" /\ tasks'[t].command = trim(m.text)
          /\ services'[s].messageHistory =
                Append(services[s].messageHistory,
                       [role |-> "user", content |-> tasks'[t].command])
          /\ services'[s].model = services[s].model
          /\ net' = net
          /\ files' = files
          /\ tasks'[t].sent = 0
          /\ tasks'[t].pc = "dispatch"
          /\ tasks'[t].result = NoResult]_vars

\* a command typed with upper-case letters has just been recorded as typed
C1_Witness ==
    \E t \in Tasks :
        /\ tasks[t].pc = "dispatch"
        /\ tasks[t].command # toLowerCase(tasks[t].command)
        /\ Last(History(tasks[t].svc)) = [role |-> "user", content |-> tasks[t].command]

\* C2: handleCommand never raises: when control is back in the caller the call
\* has returned a text, and when a branch raised (the catch block ran) the
\* text is "Error executing command: " followed by the message.
C2_NeverRaises ==
    \A t \in Tasks :
        (tasks[t].kind = "command" /\ tasks[t].pc = "return") =>
            /\ tasks[t].result.kind = "return"
            /\ tasks[t].caught =>
                  /\ Len(tasks[t].result.value) > 1
                  /\ Head(tasks[t].result.value) = ErrorExecutingCommand

\* @edit on a line the document does not have has returned the error text
C2_Witness ==
    \E t \in Tasks :
        /\ tasks[t].pc = "return"
        /\ tasks[t].caught
        /\ tasks[t].result.value =
              << ErrorExecutingCommand, "Failed to edit file: ", "Error", ": ",
                 "Illegal value for line" >>

ScopedBranches == { "workspace", "read", "understand" }
PromptHeads ==
    { "Workspace Context:\n", "File Context (",
      "Please analyze and explain this code file in detail:\nFile path: " }
IsPrompt(content) == content # << >> /\ Head(content) \in PromptHeads

\* C3: a chat request of plain chat carries role and content of every Turn of
\* the transcript, in order, the new user Turn included; a chat request of
\* @workspace, @read or @understand carries one user message, the synthesized
\* prompt, which is no Turn of the transcript; no Turn ever holds a prompt.
C3_RequestMessages ==
    [][/\ \A t \in Tasks : SendsChat(t) =>
             LET h == services'[tasks'[t].svc].messageHistory
                 msgs == net'[t].messages
             IN IF tasks'[t].kind = "plain"
                THEN /\ SameTurns(msgs, h)
                     /\ Last(h) = [role |-> "user", content |-> tasks'[t].command]
                ELSE /\ branchOf(tasks'[t].command) \in ScopedBranches
                     /\ Len(msgs) = 1
                     /\ msgs[1].role = "user"
                     /\ IsPrompt(msgs[1].content)
                     /\ \A i \in 1..Len(h) : h[i].content # msgs[1].content
                     /\ services' = services
       /\ \A s \in 1..Len(services') :
             \A i \in 1..Len(services'[s].messageHistory) :
                 ~IsPrompt(services'[s].messageHistory[i].content)]_vars

\* a plain chat request is in flight that carries an earlier Turn as well
C3_Witness ==
    \E t \in Tasks :
        /\ tasks[t].kind = "plain"
        /\ net[t].url = "/api/chat"
        /\ Len(net[t].messages) >= 2
        /\ SameTurns(net[t].messages, History(tasks[t].svc))

SendsPlain(t) == tasks[t].kind # "plain" /\ tasks'[t].kind = "plain"
PlainSucceeds(t) ==
    /\ tasks[t].kind = "plain" /\ tasks[t].pc = "awaitChat"
    /\ tasks'[t].pc = "return" /\ tasks'[t].result.kind = "return"

\* C4: plain chat on a transcript of length n sends one request of n+1
\* messages that ends with the user input (for n = 0 and 'hello': that single
\* message), and sends no second one; on success the transcript has n+2
\* Turns, the last two being the user Turn and the reply.
C4_PlainChat ==
    [][\A t \in Tasks :
          LET h == services[tasks'[t].svc].messageHistory
          IN
          /\ SendsPlain(t) =>
                /\ tasks'[t].sent = 1
                /\ Len(net'[t].messages) = Len(h) + 1
                /\ Last(net'[t].messages) = [role |-> "user", content |-> tasks'[t].command]
                /\ \E m \in inputs : m.command = "sendMessage" /\ tasks'[t].command = trim(m.text)
                /\ (Len(h) = 0 /\ tasks'[t].command = hello) =>
                      net'[t].messages = << [role |-> "user", content |-> hello] >>
          /\ (tasks[t].kind = "plain" /\ tasks'[t].kind = "plain") => tasks'[t].sent = 1
          /\ PlainSucceeds(t) =>
                LET g2 == services'[tasks[t].svc].messageHistory
                IN
                /\ Len(g2) = Len(net[t].messages) + 1
                /\ Last(g2) = [role |-> "assistant", content |-> tasks'[t].result.value]
                /\ g2[Len(g2) - 1] = [role |-> "user", content |-> tasks[t].command]]_vars

\* C5: for every command the session loop appends exactly one assistant Turn
\* holding the text handleCommand returned, once handleCommand has returned,
\* whatever that text is (the empty text of the model included).
C5_ExactlyOneAnswer ==
    [][\A t \in Tasks : ReturnsCommand(t) =>
          services'[tasks[t].svc].messageHistory =
             Append(services[tasks[t].svc].messageHistory,
                    [role |-> "assistant", content |-> tasks[t].result.value])]_vars

AwaitPcs == { "awaitTags", "awaitScan", "awaitFile", "awaitEdit", "awaitChat" }

\* C6: while a task of the session is suspended on a remote call or a file
\* read, no step of another event or task changes the transcript or the
\* current model.
C6_NoOverlap ==
    [][\A t \in Tasks :
          (tasks[t].pc \in AwaitPcs /\ tasks'[t] = tasks[t]) => services' = services]_vars

\* C7: in every step the transcript of a session stays as it is, gets Turns
\* appended at its end, or becomes empty; no Turn in it is changed, moved or
\* removed on its own.
C7_AppendOrClear ==
    [][\A s \in Services :
          LET h == services[s].messageHistory
              h2 == services'[s].messageHistory
          IN \/ h2 = h
             \/ h2 = << >>
             \/ Len(h2) > Len(h) /\ SubSeq(h2, 1, Len(h)) = h]_vars

\* a transcript that was cleared by @clear and has grown by appends since
C7_Witness ==
    \E s \in Services :
        /\ Len(History(s)) = 3
        /\ History(s)[1] = [role |-> "assistant", content |-> ClearedText]

\* the model name of '@model <name>' as the user typed it
typedModelName(command) == trim(slice(trim(command), Len(kwModel) + 1))

\* listModels has answered a '@model' command
ModelLookupDone(t) ==
    /\ tasks[t].pc = "awaitTags" /\ tasks'[t].pc = "return"
    /\ branchOf(tasks[t].command) = "model"
    /\ ~tasks'[t].caught

\* C8: for every name N that listModels reports, '@model N' sets the current
\* model to exactly N and clears the transcript, the name compared as typed
\* (upper-case letters and colons included).  The not-found half of the claim
\* is the statement of C9.
C8_ModelExactMatch ==
    [][\A t \in Tasks :
          (ModelLookupDone(t) /\ typedModelName(tasks[t].command) \in ServerModelNames) =>
              /\ services'[tasks[t].svc].model = typedModelName(tasks[t].command)
              /\ services'[tasks[t].svc].messageHistory = << >>]_vars

\* C9: '@model X' with X not among the reported names returns the not-found
\* message and leaves the current model and the transcript as they were.
C9_UnknownModelNoEffect ==
    [][\A t \in Tasks :
          (ModelLookupDone(t) /\ typedModelName(tasks[t].command) \notin ServerModelNames) =>
              /\ Head(tasks'[t].result.value) = Head(ModelNotFoundText(<< >>))
              /\ services'[tasks[t].svc] = services[tasks[t].svc]]_vars

\* the transcript right after '@clear' was processed and '@info' was entered
AfterClearInInfo(t) ==
    /\ branchOf(tasks[t].command) = "info"
    /\ services[tasks[t].svc].messageHistory =
          << [role |-> "assistant", content |-> ClearedText],
             [role |-> "user", content |-> tasks[t].command] >>

\* C10 as claimed: after '@clear' and then '@info' were processed the model
\* name is as before and the transcript has length 0.
C10_ClearThenInfoEmpty ==
    [][\A t \in Tasks :
          (ReturnsCommand(t) /\ AfterClearInInfo(t)) =>
              /\ services'[tasks[t].svc].model = services[tasks[t].svc].model
              /\ Len(services'[tasks[t].svc].messageHistory) = 0]_vars

\* C10 amended: no step of '@clear' or '@info' changes the model name; when
\* '@clear' has been processed the transcript is the one assistant Turn
\* "Chat history cleared"; when '@info' has been processed right after it the
\* transcript has length 3: that Turn, the user Turn '@info' and the assistant
\* Turn "Current model: <model>".
C10_ClearThenInfo ==
    [][\A t \in Tasks :
          LET s == tasks[t].svc
              branch == branchOf(tasks[t].command)
          IN
          /\ (tasks[t].kind = "command" /\ branch \in { "clear", "info" }
                 /\ tasks'[t] # tasks[t]) =>
                services'[s].model = services[s].model
          /\ (ReturnsCommand(t) /\ branch = "clear") =>
                services'[s].messageHistory =
                   << [role |-> "assistant", content |-> ClearedText] >>
          /\ (ReturnsCommand(t) /\ AfterClearInInfo(t)) =>
                /\ Len(services'[s].messageHistory) = 3
                /\ services'[s].messageHistory =
                      << [role |-> "assistant", content |-> ClearedText],
                         [role |-> "user", content |-> tasks[t].command],
                         [role |-> "assistant",
                          content |-> << "Current model: " >> \o services[s].model] >>]_vars

\* '@clear' and then '@info' have been processed on the default model
C10_Witness ==
    /\ \A t \in Tasks : tasks[t].pc = "idle"
    /\ ollamaService # 0
    /\ History(ollamaService) =
          << [role |-> "assistant", content |-> ClearedText],
             [role |-> "user", content |-> kwInfo],
             [role |-> "assistant", content |-> << "Current model: " >> \o DefaultModel] >>

\* the command part of the input as the user typed it
typedCmdPart(command) == trim(Head(split(trim(command), ":")))

\* the switch of handleCommand has just ended in a return, with no await
DispatchReturns(t) ==
    tasks[t].kind = "command" /\ tasks[t].pc = "dispatch" /\ tasks'[t].pc = "return"

\* C11: for an input that starts with '@' and matches no command, handleCommand
\* returns (does not raise, its catch has not run) a text that holds the
\* unrecognized token as typed and ends with the reference to @help.
C11_UnknownToken ==
    [][\A t \in Tasks :
          (DispatchReturns(t) /\ branchOf(tasks[t].command) = "unknown") =>
              /\ tasks'[t].result.kind = "return"
              /\ ~tasks'[t].caught
              /\ includes(tasks'[t].result.value, typedCmdPart(tasks[t].command))
              /\ Last(tasks'[t].result.value) = "\nType @help to see available commands"]_vars

\* C12: '@workspace: <query>' with no folder open returns the text
\* "No workspace folder is open." and sends no request.
C12_NoFolderNoRequest ==
    [][\A t \in Tasks :
          (/\ tasks[t].kind = "command"
           /\ branchOf(tasks[t].command) = "workspace"
           /\ queryOf(tasks[t].command) # << >>
           /\ ~workspaceOpen
           /\ tasks'[t] # tasks[t]) =>
              /\ net'[t] = NoRequest
              /\ tasks'[t].sent = 0
              /\ tasks'[t].pc = "return" => tasks'[t].result = Return(NoWorkspaceText)]_vars

\* C13: the input '@' submitted through the webview gets the list of command
\* names (getCommandSuggestions) and sends no request.
C13_SigilSuggestions ==
    [][\A t \in Tasks :
          (DispatchReturns(t) /\ tasks[t].command = << at >>) =>
              /\ tasks'[t].result = Return(CommandSuggestions)
              /\ tasks'[t].sent = 0]_vars

\* the query and the @edit match of the input as the user typed it
typedQuery(command) == trim(join(Tail(split(trim(command), ":")), ":"))
typedEdit(command) == editMatch(typedCmdPart(command))

\* C14: the keyword is matched whatever its case, and the arguments handed on
\* are the characters the user typed: the query and the file path in the
\* prompt of @workspace / @read / @understand, the content @edit writes.
C14_ArgumentsKeepCase ==
    [][\A t \in Tasks :
          LET command == tasks'[t].command
              branch == branchOf(command)
          IN
          /\ (DispatchReturns(t) /\ toLowerCase(typedCmdPart(command)) = kwHelp) =>
                tasks'[t].result = Return(HelpText)
          /\ (SendsChat(t) /\ tasks'[t].kind = "command") =>
                /\ includes(net'[t].messages[1].content, typedQuery(command))
                /\ branch = "read" =>
                      includes(net'[t].messages[1].content,
                               trim(slice(typedCmdPart(command), Len(kwRead) + 1)))
                /\ branch = "understand" =>
                      includes(net'[t].messages[1].content,
                               trim(slice(typedCmdPart(command), Len(kwUnderstand) + 1)))
          /\ (tasks[t].pc = "awaitEdit" /\ files' # files) =>
                \E path \in DOMAIN files : \E i \in 1..Len(files[path]) :
                    /\ files'[path][i] # files[path][i]
                    /\ files'[path][i] = typedEdit(command).content]_vars

\* C15: no retry: a task sends at most one remote request, and once the
\* request it waits for is answered (with success or failure) the task
\* returns with no request pending.
C15_NoRetry ==
    [][\A t \in Tasks :
          /\ tasks'[t].sent <= 1
          /\ (tasks[t].pc \in { "awaitChat", "awaitTags" } /\ tasks'[t] # tasks[t]) =>
                /\ tasks'[t].pc = "return"
                /\ net'[t] = NoRequest]_vars

\* a command whose one request failed is back in the caller
C15_Witness ==
    \E t \in Tasks :
        /\ tasks[t].pc = "return"
        /\ tasks[t].caught
        /\ tasks[t].sent = 1
        /\ net[t] = NoRequest

\* the chat request of task t has just been answered
ChatAnswered(t) == tasks[t].pc = "awaitChat" /\ tasks'[t].pc = "return"

\* C16: when the chat request of plain chat fails sendMessage raises (it
\* returns a text only for a reply, which it has then recorded) and the
\* transcript gets no assistant Turn, also not in the handler's catch; a
\* command returns the failure as the text of handleCommand's catch.
C16_PlainFailurePropagates ==
    [][\A t \in Tasks :
          LET h == services[tasks[t].svc].messageHistory
              h2 == services'[tasks[t].svc].messageHistory
          IN
          /\ (ChatAnswered(t) /\ tasks[t].kind = "plain") =>
                /\ tasks'[t].result.kind \in { "return", "throw" }
                /\ tasks'[t].result.kind = "return" =>
                      h2 = Append(h, [role |-> "assistant", content |-> tasks'[t].result.value])
                /\ tasks'[t].result.kind = "throw" => services' = services
          /\ (tasks[t].kind = "plain" /\ tasks[t].pc = "return"
                 /\ tasks[t].result.kind = "throw" /\ tasks'[t].pc = "idle") =>
                services' = services
          /\ (ChatAnswered(t) /\ tasks[t].kind = "command") =>
                /\ tasks'[t].result.kind = "return"
                /\ tasks'[t].caught => Head(tasks'[t].result.value) = ErrorExecutingCommand]_vars

\* plain chat whose request failed: the failure is raised, the transcript ends
\* with the user Turn
C16_Witness ==
    \E t \in Tasks :
        /\ tasks[t].kind = "plain"
        /\ tasks[t].pc = "return"
        /\ tasks[t].result.kind = "throw"
        /\ Last(History(tasks[t].svc)) = [role |-> "user", content |-> tasks[t].command]

NoRemoteBranches ==
    { "help", "clear", "info", "analyze", "search", "edit", "explain", "refactor",
      "deps", "unknown" }

\* C17: a task of @help, @clear, @info, @analyze, @search, @edit, @explain,
\* @refactor, @deps or of an unknown command has sent no remote request and
\* waits for none, at every point of its run.
C17_NoRemoteCall ==
    \A t \in Tasks :
        (tasks[t].kind = "command" /\ branchOf(tasks[t].command) \in NoRemoteBranches) =>
            /\ tasks[t].sent = 0
            /\ net[t] = NoRequest

\* @edit has failed after opening the file, and has sent nothing
C17_Witness ==
    \E t \in Tasks :
        /\ tasks[t].pc = "return"
        /\ branchOf(tasks[t].command) = "edit"
        /\ tasks[t].caught
        /\ tasks[t].sent = 0

\* lines first..first+4 and second..second+4 (counted from 1) are two windows of
\* the text that do not overlap and hold the same lines
DuplicatePair(lines, first, second) ==
    /\ first >= 1 /\ second >= first + windowSize
    /\ second + windowSize - 1 <= Len(lines)
    /\ SubSeq(lines, first, first + windowSize - 1)
          = SubSeq(lines, second, second + windowSize - 1)

\* C18: findCodeDuplicates reports the earlier window of every pair of
\* non-overlapping five-line windows with the same text, and nothing else;
\* for ten lines whose lines 1-5 equal lines 6-10 the result is exactly the
\* window 1-5.
C18_DuplicateWindows ==
    out.fn = "findCodeDuplicates" =>
        /\ \A first, second \in 1..Len(fileText) :
              DuplicatePair(fileText, first, second) =>
                 \E k \in 1..Len(out.value) :
                    out.value[k] = [startLine |-> first, endLine |-> first + windowSize - 1]
        /\ \A k \in 1..Len(out.value) :
              \E second \in 1..Len(fileText) :
                 /\ DuplicatePair(fileText, out.value[k].startLine, second)
                 /\ out.value[k].endLine = out.value[k].startLine + windowSize - 1
        /\ (Len(fileText) = 2 * windowSize /\ DuplicatePair(fileText, 1, windowSize + 1)) =>
              out.value = << [startLine |-> 1, endLine |-> windowSize] >>

\* the name of import line imp occurs in a line of the text that is not that
\* import line
UsedElsewhere(lines, imp) ==
    \E i \in 1..Len(lines) :
        trim(lines[i]) # imp /\ includes(lines[i], importName(imp))

\* the sub-sequence of seq at the indices in keep, in order
RECURSIVE Pick(_, _, _)
Pick(seq, keep, i) ==
    IF i > Len(seq) THEN << >>
    ELSE (IF i \in keep THEN << seq[i] >> ELSE << >>) \o Pick(seq, keep, i + 1)

\* C19: findUnusedImports returns exactly the import lines whose name occurs
\* nowhere in the text but in the import line itself.
C19_UnusedImports ==
    out.fn = "findUnusedImports" =>
        LET imports == extractImports(fileText) IN
        out.value =
           Pick(imports,
                { i \in 1..Len(imports) :
                     importName(imports[i]) # << >> /\ ~UsedElsewhere(fileText, imports[i]) },
                1)

\* C20: extractImports returns one entry for each line of the text that
\* starts with 'import', in the order of the lines, and no other entry.
C20_ExtractImportsCount ==
    out.fn = "extractImports" =>
        LET importLines == { i \in 1..Len(fileText) : startsWith(fileText[i], kwImport) } IN
        /\ Len(out.value) = Cardinality(importLines)
        /\ out.value = Pick([i \in 1..Len(fileText) |-> trim(fileText[i])], importLines, 1)

\* the text 'if (x) {}\nelse {}\n', as its three lines
IfElseText ==
    << << "i", "f", " ", "(", "x", ")", " ", "{", "}" >>,
       << "e", "l", "s", "e", " ", "{", "}" >>,
       << >> >>

\* C21: the complexity of a text is 1 plus the number of its lines whose
\* trimmed text holds one of if, else, for, while, switch, catch, &&, ||
\* (a line counts once); it is 1 for the empty text and 3 for
\* 'if (x) {}\nelse {}\n'; the file-level and the function-level counter agree.
C21_Complexity ==
    out.fn \in { "calculateCodeComplexity", "calculateFunctionComplexity" } =>
        /\ out.value =
              1 + Cardinality({ i \in 1..Len(fileText) :
                     \E k \in complexityKeywords : includes(trim(fileText[i]), k) })
        /\ out.value = calculateCodeComplexity(fileText)
        /\ out.value = calculateFunctionComplexity(fileText)
        /\ fileText = << << >> >> => out.value = 1
        /\ fileText = IfElseText => out.value = 3

\* the complexity of 'if (x) {}\nelse {}\n' has been computed
C21_Witness == out.fn = "calculateCodeComplexity" /\ fileText = IfElseText /\ out.value = 3

\* the command of @edit has just come back to the caller
EditReturns(t) ==
    /\ tasks[t].kind = "command" /\ branchOf(tasks[t].command) = "edit"
    /\ tasks[t].pc # "return" /\ tasks'[t].pc = "return"

\* C22: @edit returns its success message only when the addressed line has
\* been replaced by the new content; in every other case (no folder, no such
\* file, no such line, the edit not applied) it returns another text, an
\* error, and the file is as before.
C22_EditSuccessMeansEdited ==
    [][\A t \in Tasks : EditReturns(t) =>
          LET m == editMatch(baseCmdOf(tasks[t].command)) IN
          IF tasks'[t].result = Return(EditedText(m.line, m.filePath))
          THEN /\ workspaceOpen
               /\ m.filePath \in DOMAIN files
               /\ parseInt(m.line) \in 1..Len(files[m.filePath])
               /\ files' = replaceLine(files, m.filePath, parseInt(m.line), m.content)
          ELSE /\ files' = files
               /\ m.ok => tasks'[t].caught]_vars

\* the @edit match of the whole input as typed, not cut at a colon
typedEditWhole(command) == editMatch(trim(command))

\* C23: @edit writes the entire content that follows the line number, colons
\* included (compared without regard to case), at the path and line given;
\* @search searches for the entire text after the keyword; an @edit input
\* without path, line or content returns the format error and edits nothing.
C23_WholeArguments ==
    [][\A t \in Tasks :
          LET command == tasks[t].command
              typed == typedEditWhole(command)
          IN
          /\ (tasks[t].pc = "awaitEdit" /\ files' # files) =>
                files' = replaceLine(files, toLowerCase(typed.filePath),
                                     parseInt(typed.line), toLowerCase(typed.content))
          /\ (tasks[t].pc = "awaitScan" /\ tasks'[t].pc = "return"
                 /\ branchOf(command) = "search") =>
                tasks'[t].result =
                   Return(searchCode(files, trim(slice(trim(command), Len(kwSearch) + 1))))
          /\ (DispatchReturns(t) /\ branchOf(command) = "edit" /\ ~typed.ok) =>
                /\ tasks'[t].result = Return(EditFormatText)
                /\ files' = files]_vars

\* C24: a reply of plain chat is appended only to a transcript that has not
\* been cleared since the request was sent: the transcript it is appended to
\* still begins with the messages of the request (a transcript changes only
\* by appends or by a clear, so a transcript that does not has been cleared).
C24_NoReplyAfterClear ==
    [][\A t \in Tasks :
          LET h == services[tasks[t].svc].messageHistory
              h2 == services'[tasks[t].svc].messageHistory
              sentMessages == net[t].messages
          IN (PlainSucceeds(t) /\ h2 # h) =>
                /\ Len(h) >= Len(sentMessages)
                /\ SameTurns(SubSeq(h, 1, Len(sentMessages)), sentMessages)]_vars

\* C25: when the handler of a command ends with a text, the assistant Turn is
\* appended to the transcript of the service whose handleCommand produced the
\* text, and the response is posted to the panel that sent the command (the
\* panel created with that service), also when that panel has been closed and
\* a new chat started while the command waited for its remote call.
C25_SameSession ==
    [][\A t \in Tasks :
          (ReturnsCommand(t) /\ truthy(tasks[t].result.value)) =>
              /\ services'[tasks[t].svc].messageHistory =
                    Append(History(tasks[t].svc),
                           Turn("assistant", tasks[t].result.value))
              /\ posted' = [panel |-> tasks[t].svc, command |-> "response"]]_vars

\* C26: once startChat has returned, a panel recorded as the current panel has
\* its service and its message and dispose handlers registered, also when the
\* listModels call of that startChat failed.
C26_CurrentPanelWorks ==
    (starting = 0 /\ currentPanel # 0) =>
        /\ ollamaService = currentPanel
        /\ currentPanel \in 1..Len(services)
        /\ currentPanel \in handlers

\* the chat request of plain chat has just failed
PlainFails(t) ==
    /\ tasks[t].kind = "plain" /\ tasks[t].pc = "awaitChat"
    /\ tasks'[t].pc = "return" /\ tasks'[t].result.kind = "throw"

\* C27: plain chat appends exactly its user Turn before it sends, and its
\* request carries the whole transcript, every earlier unanswered user message
\* included; when the request fails, and when the handler then ends in its
\* catch, no transcript changes (the user Turn is not rolled back).
C27_NoRollback ==
    [][\A t \in Tasks :
          /\ SendsPlain(t) =>
                LET s == tasks'[t].svc IN
                /\ services'[s].messageHistory =
                      Append(History(s), Turn("user", tasks'[t].command))
                /\ SameTurns(net'[t].messages, services'[s].messageHistory)
          /\ PlainFails(t) => services' = services
          /\ (tasks[t].kind = "plain" /\ tasks[t].pc = "return"
                /\ tasks[t].result.kind = "throw" /\ tasks'[t].pc = "idle") =>
                services' = services]_vars

\* after a failed 'hello' the next plain chat is in flight, no other task is
\* in progress: transcript and request are the two user Turns
C27_Witness ==
    \E t \in Tasks :
        /\ tasks[t].kind = "plain" /\ tasks[t].pc = "awaitChat"
        /\ \A u \in Tasks \ { t } : tasks[u].pc = "idle"
        /\ History(tasks[t].svc) = << Turn("user", hello), Turn("user", hello) >>
        /\ SameTurns(net[t].messages, History(tasks[t].svc))

\* the Turns alternate user, assistant, starting with a user Turn
Alternates(history) ==
    \A i \in 1..Len(history) :
        history[i].role = IF i % 2 = 1 THEN "user" ELSE "assistant"

\* C28: under serialized dispatch, in every state between inputs (no handler
\* invocation in progress) the Turns of every transcript strictly alternate
\* user, assistant, beginning with a user Turn.
C28_Alternation ==
    Quiet => \A s \in Services : Alternates(History(s))

\* C29: the model of a session changes only in the step where listModels has
\* answered its '@model' command with a list that holds the name (the new
\* model is that name, one the server reports), or in a changeModel event (the
\* new model is the event's model, whatever the server reports); every other
\* step, clearHistory and saveState included, leaves every session's model.
C29_ModelChanges ==
    [][\A s \in Services :
          services'[s].model # services[s].model =>
              \/ \E t \in Tasks :
                    /\ tasks[t].svc = s
                    /\ ModelLookupDone(t)
                    /\ services'[s].model \in ServerModelNames
                    /\ tasks'[t].result.value = ModelChangedText(services'[s].model)
              \/ \E message \in inputs :
                    /\ message.command = "changeModel"
                    /\ s = ollamaService
                    /\ services'[s].model = message.model
                    /\ tasks' = tasks
                    /\ net' = net]_vars

\* '@model a' has set the model to 'a' and a later '@model z', whose name the
\* server does not report, has left it there
C29_Witness ==
    \E t \in Tasks :
        /\ tasks[t].kind = "command" /\ tasks[t].pc = "return"
        /\ branchOf(tasks[t].command) = "model"
        /\ tasks[t].result.value = ModelNotFoundText(<< "z" >>)
        /\ services[tasks[t].svc].model = << "a" >>

\* C30: in every reachable state every session has an empty workspace context
\* and no current-file context, and the request of a plain chat in flight ends
\* with the user message whose content is the input as the handler passed it,
\* without a context prefix.
C30_NoAmbientContext ==
    /\ \A s \in Services :
          /\ services[s].workspaceContext = << >>
          /\ ~services[s].currentFileContext.set
    /\ \A t \in Tasks :
          (tasks[t].kind = "plain" /\ tasks[t].pc = "awaitChat") =>
              /\ net[t].messages # << >>
              /\ Last(net[t].messages) = [role |-> "user", content |-> tasks[t].command]

\* 'hello' is in flight as the only message of its request and the last Turn
C30_Witness ==
    \E t \in Tasks :
        /\ tasks[t].kind = "plain" /\ tasks[t].pc = "awaitChat"
        /\ net[t].messages = << [role |-> "user", content |-> hello] >>
        /\ Last(History(tasks[t].svc)) = Turn("user", hello)
====
